---- MODULE Spec2Model ----
(***************************************************************************)
(* Model of the scheduler engine of src/simulador_procesos.py (class       *)
(* Scheduler, lines 109-502) and of the few MainWindow handlers that call  *)
(* it.  A scheduler state is a record `s`; every method is an operator     *)
(* from a state (and its arguments and random draws) to the next state,    *)
(* composed exactly as the Python code calls them.  Process objects are    *)
(* keyed by pid (s.procs[pid]); the collections hold pids, so that one     *)
(* object standing in two lists is one pid listed twice.                   *)
(* The arrival_time field and the message text of a mailbox entry are      *)
(* never read by the engine and are left out.                              *)
(***************************************************************************)
EXTENDS Integers, Sequences, FiniteSets, TLC

\* ---------------------------------------------------------------- bounds
MaxProcs == 2      \* processes created per scheduler lifetime
MaxBurst == 2      \* largest burst argument of create_process
MaxOps == 6        \* Spec: operations invoked on one scheduler
MaxQProcs == 2     \* SpecQ: processes created
MaxQTime == 5      \* SpecQ: ticks explored
MaxWProcs == 3     \* SpecWRR: processes created
MaxWBurst == 2     \* SpecWRR: largest burst
MaxWTime == 12     \* SpecWRR: ticks explored
MaxDup == 1        \* entries a process may hold over all collections beyond one each
MaxIo == 3         \* largest I/O duration drawn
MaxArrivalBurst == 3  \* largest burst drawn for an automatic arrival

MaxLProcs == 2     \* SpecLive: processes created, arrivals included
MaxLBurst == 2     \* SpecLive: largest burst of the initial population
MaxLTime == 2      \* SpecLive: value at which the clock, which the engine never reads, is held

MaxRProcs == 3     \* SpecRR: processes of the population
MaxRBurst == 5     \* SpecRR: largest common burst

MaxTProcs == 2     \* SpecTerm: processes of the population
MaxTBurst == 4     \* SpecTerm: largest burst

MaxMail == 2       \* SpecReply: messages a mailbox may hold

\* ------------------------------------------------------- program constants
NoPid == 0         \* Optional[...] = None for a pid or a Process reference
RandLo == 3        \* randint(3, 10): bursts of arrivals, I/O durations
RandHi == 10

PRIO_CYCLE == <<"HIGH", "MEDIUM", "LOW">>
Priority == {"HIGH", "MEDIUM", "LOW"}
\* variant for comparison: MEDIUM has the quantum of HIGH
PRIO_QUANTUM_long(prio) == CASE prio = "HIGH" -> 3 [] prio = "MEDIUM" -> 3 [] prio = "LOW" -> 1
PRIO_QUANTUM(prio) == CASE prio = "HIGH" -> 3 [] prio = "MEDIUM" -> 2 [] prio = "LOW" -> 1
WRR_WEIGHTS(prio) == CASE prio = "HIGH" -> 2 [] prio = "MEDIUM" -> 2 [] prio = "LOW" -> 1

ProcessState == {"NEW", "READY", "RUNNING", "BLOCKED", "PAUSED", "FINISHED", "ZOMBIE"}
BlockReason == {"IO", "DEPENDENCY", "PAUSED"}
NoReason == "None"

\* ------------------------------------------------------------ list helpers
Max(a, b) == IF a >= b THEN a ELSE b
Min(a, b) == IF a <= b THEN a ELSE b
Elems(q) == {q[i] : i \in 1..Len(q)}
Count(q, x) == Cardinality({i \in 1..Len(q) : q[i] = x})
RemoveAt(q, i) == SubSeq(q, 1, i - 1) \o SubSeq(q, i + 1, Len(q))
FirstIdx(q, x) == IF x \in Elems(q) THEN CHOOSE i \in 1..Len(q) : q[i] = x /\ \A j \in 1..(i - 1) : q[j] # x ELSE 0
\* list.remove(x) / deque.remove(x): drops the first occurrence
list_remove(q, x) == IF x \in Elems(q) THEN RemoveAt(q, FirstIdx(q, x)) ELSE q
Reverse(q) == [i \in 1..Len(q) |-> q[Len(q) + 1 - i]]

\* --------------------------------------------------------------- Process
Process(burst) == [burst_time |-> burst, remaining_time |-> burst, state |-> "NEW", block_reason |-> NoReason, waiting_for_pid |-> NoPid, io_remaining |-> 0, priority |-> "MEDIUM"]
set_state(s, pid, st) == [s EXCEPT !.procs[pid].state = st]

\* ------------------------------------------------------ Scheduler.__init__
SchedulerInit(simz, rep) == [time |-> 0, next_pid |-> 1, simulate_zombie |-> simz, repeat_mode |-> rep, new |-> <<>>, ready |-> <<>>, blocked |-> <<>>, finished |-> <<>>, zombies |-> <<>>, running |-> NoPid, procs |-> <<>>, mailboxes |-> <<>>, spawned_when_empty |-> FALSE, quantum_used |-> 0, wrr_idx |-> 0, wrr_budget |-> WRR_WEIGHTS(PRIO_CYCLE[1])]

\* ----------------------------------------------------------- queries
system_empty(s) == ~(s.new # <<>> \/ s.ready # <<>> \/ s.running # NoPid)
InAnyList(s, pid) == pid \in (Elems(s.ready) \cup Elems(s.blocked) \cup Elems(s.new) \cup Elems(s.finished) \cup Elems(s.zombies))
get_proc(s, pid) == IF s.running # NoPid /\ s.running = pid THEN pid ELSE IF InAnyList(s, pid) THEN pid ELSE NoPid

\* ------------------------------------------------------ process management
\* variant for comparison: next_pid is not advanced
create_process_same_pid(s, burst) == [s EXCEPT !.procs = (s.next_pid :> Process(burst)) @@ s.procs, !.new = Append(s.new, s.next_pid)]
create_process(s, burst) == [s EXCEPT !.procs = (s.next_pid :> Process(burst)) @@ s.procs, !.next_pid = s.next_pid + 1, !.new = Append(s.new, s.next_pid)]

set_priority_ret(s, pid) == get_proc(s, pid) # NoPid
set_priority(s, pid, prio) ==
  IF get_proc(s, pid) = NoPid THEN s
  ELSE LET s1 == [s EXCEPT !.procs[pid].priority = prio]
       IN IF s1.running # NoPid /\ s1.running = pid THEN [s1 EXCEPT !.quantum_used = 0] ELSE s1

RECURSIVE admit_loop(_, _)
admit_loop(s, snap) ==
  IF snap = <<>> THEN s
  ELSE LET p == Head(snap)
           s1 == set_state(s, p, "READY")
           s2 == [s1 EXCEPT !.ready = Append(s1.ready, p), !.new = list_remove(s1.new, p)]
       IN admit_loop(s2, Tail(snap))
admit_all_new(s) == admit_loop(s, s.new)

\* ------------------------------------------------- weighted round-robin
\* variant for comparison: the cursor cycles over HIGH and MEDIUM only
advance_wrr_two_classes(s) ==
  LET idx == (s.wrr_idx + 1) % (Len(PRIO_CYCLE) - 1)
  IN [s EXCEPT !.wrr_idx = idx, !.wrr_budget = WRR_WEIGHTS(PRIO_CYCLE[idx + 1])]
advance_wrr(s) ==
  LET idx == (s.wrr_idx + 1) % Len(PRIO_CYCLE)
  IN [s EXCEPT !.wrr_idx = idx, !.wrr_budget = WRR_WEIGHTS(PRIO_CYCLE[idx + 1])]

RECURSIVE appendleft_all(_, _)
appendleft_all(items, q) == IF items = <<>> THEN q ELSE appendleft_all(Tail(items), <<Head(items)>> \o q)

ClassIdx(s, prio) == IF \E i \in 1..Len(s.ready) : s.procs[s.ready[i]].priority = prio THEN CHOOSE i \in 1..Len(s.ready) : s.procs[s.ready[i]].priority = prio /\ \A j \in 1..(i - 1) : s.procs[s.ready[j]].priority # prio ELSE 0
\* variant for comparison: the entries taken off the front are put back unreversed
pop_ready_by_priority_unreversed(s, prio) ==
  LET idx == ClassIdx(s, prio)
  IN IF idx = 0 THEN [s |-> s, p |-> NoPid]
     ELSE [s |-> [s EXCEPT !.ready = appendleft_all(SubSeq(s.ready, 1, idx - 1), SubSeq(s.ready, idx + 1, Len(s.ready)))], p |-> s.ready[idx]]
\* variant for comparison: takes the last READY process of the class
pop_ready_by_priority_last(s, prio) ==
  LET idx == IF ClassIdx(s, prio) = 0 THEN 0 ELSE CHOOSE i \in 1..Len(s.ready) : s.procs[s.ready[i]].priority = prio /\ \A j \in (i + 1)..Len(s.ready) : s.procs[s.ready[j]].priority # prio
  IN IF idx = 0 THEN [s |-> s, p |-> NoPid] ELSE [s |-> [s EXCEPT !.ready = RemoveAt(s.ready, idx)], p |-> s.ready[idx]]
\* result: [s |-> state after the pop, p |-> the pid popped or NoPid]
pop_ready_by_priority(s, prio) ==
  LET idx == ClassIdx(s, prio)
  IN IF idx = 0 THEN [s |-> s, p |-> NoPid]
     ELSE IF idx = 1 THEN [s |-> [s EXCEPT !.ready = Tail(s.ready)], p |-> Head(s.ready)]
     ELSE LET tmp == SubSeq(s.ready, 1, idx - 1)
              rest == SubSeq(s.ready, idx + 1, Len(s.ready))
          IN [s |-> [s EXCEPT !.ready = appendleft_all(Reverse(tmp), rest)], p |-> s.ready[idx]]

\* variant for comparison: the search stops before the cursor is back at the
\* class it started from
max_attempts_short == Len(PRIO_CYCLE) - 1
max_attempts == Len(PRIO_CYCLE) * (Max(Max(WRR_WEIGHTS("HIGH"), WRR_WEIGHTS("MEDIUM")), WRR_WEIGHTS("LOW")) + 1)
choose_fallback(s) ==
  LET p == Head(s.ready)
      s1 == set_state([s EXCEPT !.ready = Tail(s.ready)], p, "RUNNING")
  IN [s |-> [s1 EXCEPT !.quantum_used = 0], p |-> p, fallback |-> TRUE]
RECURSIVE choose_loop(_, _)
choose_loop(s, attempts) ==
  IF attempts >= max_attempts THEN choose_fallback(s)
  ELSE LET current_class == PRIO_CYCLE[s.wrr_idx + 1]
           has_candidate == \E i \in 1..Len(s.ready) : s.procs[s.ready[i]].priority = current_class
       IN IF ~has_candidate \/ s.wrr_budget <= 0 THEN choose_loop(advance_wrr(s), attempts + 1)
          ELSE LET r == pop_ready_by_priority(s, current_class)
               IN IF r.p = NoPid THEN choose_loop(advance_wrr(s), attempts + 1)
                  ELSE LET s1 == [r.s EXCEPT !.wrr_budget = r.s.wrr_budget - 1]
                           s2 == set_state(s1, r.p, "RUNNING")
                       IN [s |-> [s2 EXCEPT !.quantum_used = 0], p |-> r.p, fallback |-> FALSE]
\* variant for comparison: a call moves the cursor by one class at most, and
\* returns None when the class it stands at has no candidate or no budget
choose_next_no_wrap(s) ==
  IF s.ready = <<>> THEN [s |-> s, p |-> NoPid, fallback |-> FALSE]
  ELSE LET current_class == PRIO_CYCLE[s.wrr_idx + 1]
           has_candidate == \E i \in 1..Len(s.ready) : s.procs[s.ready[i]].priority = current_class
       IN IF ~has_candidate \/ s.wrr_budget <= 0 THEN [s |-> advance_wrr(s), p |-> NoPid, fallback |-> FALSE] ELSE choose_loop(s, 0)
\* result: [s |-> state after the call, p |-> the pid returned or NoPid, fallback]
choose_next(s) == IF s.ready = <<>> THEN [s |-> s, p |-> NoPid, fallback |-> FALSE] ELSE choose_loop(s, 0)
\* `self.running = self.choose_next()` (tick step 7, MainWindow.on_add)
\* variant for comparison: the test `self.running is None` is dropped
dispatch_unguarded(s) == LET r == choose_next(s) IN [r.s EXCEPT !.running = r.p]
dispatch(s) == IF s.running = NoPid THEN LET r == choose_next(s) IN [r.s EXCEPT !.running = r.p] ELSE s

\* ------------------------------------------------- dependencies / zombies
RECURSIVE orphan_loop(_, _, _)
orphan_loop(s, snap, callee_pid) ==
  IF snap = <<>> THEN s
  ELSE LET p == Head(snap)
       IN IF s.procs[p].block_reason = "DEPENDENCY" /\ s.procs[p].waiting_for_pid = callee_pid
          THEN LET s1 == [s EXCEPT !.blocked = list_remove(s.blocked, p), !.procs[p].block_reason = NoReason, !.procs[p].waiting_for_pid = NoPid]
                   s2 == set_state(s1, p, "ZOMBIE")
               IN orphan_loop([s2 EXCEPT !.zombies = Append(s2.zombies, p)], Tail(snap), callee_pid)
          ELSE orphan_loop(s, Tail(snap), callee_pid)
orphan_dependents(s, callee_pid) == orphan_loop(s, s.blocked, callee_pid)

\* ------------------------------------------------- preemption by quantum
\* variant for comparison: the test of the READY queue is dropped
preempt_running_alone(s) ==
  IF s.running = NoPid THEN s
  ELSE LET p == s.running
           max_q == PRIO_QUANTUM(s.procs[p].priority)
       IN IF s.quantum_used >= max_q
          THEN LET s1 == set_state(s, p, "READY")
               IN [s1 EXCEPT !.procs[p].block_reason = NoReason, !.procs[p].waiting_for_pid = NoPid, !.procs[p].io_remaining = 0, !.ready = Append(s1.ready, p), !.running = NoPid]
          ELSE s
\* variant for comparison: preempts only once the quantum is exceeded
preempt_running_late(s) ==
  IF s.running = NoPid THEN s
  ELSE LET p == s.running
           max_q == PRIO_QUANTUM(s.procs[p].priority)
       IN IF s.quantum_used > max_q /\ Len(s.ready) > 0
          THEN LET s1 == set_state(s, p, "READY")
               IN [s1 EXCEPT !.procs[p].block_reason = NoReason, !.procs[p].waiting_for_pid = NoPid, !.procs[p].io_remaining = 0, !.ready = Append(s1.ready, p), !.running = NoPid]
          ELSE s
preempt_running_if_needed(s) ==
  IF s.running = NoPid THEN s
  ELSE LET p == s.running
           max_q == PRIO_QUANTUM(s.procs[p].priority)
       IN IF s.quantum_used >= max_q /\ Len(s.ready) > 0
          THEN LET s1 == set_state(s, p, "READY")
               IN [s1 EXCEPT !.procs[p].block_reason = NoReason, !.procs[p].waiting_for_pid = NoPid, !.procs[p].io_remaining = 0, !.ready = Append(s1.ready, p), !.running = NoPid]
          ELSE s

\* ------------------------------------------------------- block / pause
block_running_ret(s) == s.running # NoPid
\* io_draw: the value of self._rnd.randint(3, 10), read only when reason = IO
block_running(s, reason, io_draw) ==
  IF s.running = NoPid THEN s
  ELSE LET p == s.running
           s1 == set_state(s, p, IF reason = "PAUSED" THEN "PAUSED" ELSE "BLOCKED")
           s2 == [s1 EXCEPT !.procs[p].block_reason = reason]
           s3 == IF reason = "IO" THEN [s2 EXCEPT !.procs[p].io_remaining = io_draw] ELSE s2
       IN [s3 EXCEPT !.blocked = Append(s3.blocked, p), !.running = NoPid]
pause_running(s) == block_running(s, "PAUSED", 0)

unblock_pid_ret(s, pid) == pid \in Elems(s.blocked)
\* variant for comparison: the search of the blocked list is dropped
unblock_pid_unchecked(s, pid) ==
  IF pid \notin DOMAIN s.procs THEN s
  ELSE LET s1 == [s EXCEPT !.blocked = list_remove(s.blocked, pid), !.procs[pid].block_reason = NoReason, !.procs[pid].waiting_for_pid = NoPid, !.procs[pid].io_remaining = 0]
           s2 == set_state(s1, pid, "READY")
       IN [s2 EXCEPT !.ready = Append(s2.ready, pid)]
unblock_pid(s, pid) ==
  IF pid \notin Elems(s.blocked) THEN s
  ELSE LET s1 == [s EXCEPT !.blocked = list_remove(s.blocked, pid), !.procs[pid].block_reason = NoReason, !.procs[pid].waiting_for_pid = NoPid, !.procs[pid].io_remaining = 0]
           s2 == set_state(s1, pid, "READY")
       IN [s2 EXCEPT !.ready = Append(s2.ready, pid)]

\* ------------------------------------- completion, repeat mode, zombies
\* variant for comparison: repeat mode re-queues without resetting remaining_time
finish_running_no_reset(s) ==
  IF s.running = NoPid THEN s
  ELSE LET p == s.running
       IN IF s.repeat_mode
          THEN LET s1 == set_state(s, p, "READY")
               IN [s1 EXCEPT !.ready = Append(s1.ready, p), !.running = NoPid]
          ELSE IF s.simulate_zombie
               THEN LET s1 == set_state(s, p, "ZOMBIE")
                        s2 == orphan_dependents([s1 EXCEPT !.zombies = Append(s1.zombies, p)], p)
                    IN [s2 EXCEPT !.running = NoPid]
               ELSE LET s1 == set_state(s, p, "FINISHED")
                        s2 == orphan_dependents([s1 EXCEPT !.finished = Append(s1.finished, p)], p)
                    IN [s2 EXCEPT !.running = NoPid]
finish_running(s) ==
  IF s.running = NoPid THEN s
  ELSE LET p == s.running
       IN IF s.repeat_mode
          THEN LET s1 == set_state([s EXCEPT !.procs[p].remaining_time = s.procs[p].burst_time], p, "READY")
               IN [s1 EXCEPT !.ready = Append(s1.ready, p), !.running = NoPid]
          ELSE IF s.simulate_zombie
               THEN LET s1 == set_state(s, p, "ZOMBIE")
                        s2 == orphan_dependents([s1 EXCEPT !.zombies = Append(s1.zombies, p)], p)
                    IN [s2 EXCEPT !.running = NoPid]
               ELSE LET s1 == set_state(s, p, "FINISHED")
                        s2 == orphan_dependents([s1 EXCEPT !.finished = Append(s1.finished, p)], p)
                    IN [s2 EXCEPT !.running = NoPid]

RECURSIVE revive_finished(_, _)
revive_finished(s, snap) ==
  IF snap = <<>> THEN s
  ELSE LET p == Head(snap)
           s1 == set_state([s EXCEPT !.finished = list_remove(s.finished, p), !.procs[p].remaining_time = s.procs[p].burst_time], p, "READY")
       IN revive_finished([s1 EXCEPT !.ready = Append(s1.ready, p)], Tail(snap))
RECURSIVE revive_zombies(_, _)
revive_zombies(s, snap) ==
  IF snap = <<>> THEN s
  ELSE LET p == Head(snap)
           s1 == set_state([s EXCEPT !.zombies = list_remove(s.zombies, p), !.procs[p].remaining_time = s.procs[p].burst_time], p, "READY")
       IN revive_zombies([s1 EXCEPT !.ready = Append(s1.ready, p)], Tail(snap))
revive_for_cycle(s, include_zombies) ==
  LET s1 == revive_finished(s, s.finished)
  IN IF include_zombies THEN revive_zombies(s1, s1.zombies) ELSE s1

finish_to_state(s, p) ==
  IF s.simulate_zombie
  THEN LET s1 == set_state(s, p, "ZOMBIE") IN [s1 EXCEPT !.zombies = Append(s1.zombies, p)]
  ELSE LET s1 == set_state(s, p, "FINISHED") IN [s1 EXCEPT !.finished = Append(s1.finished, p)]
finalize_pid_ret(s, pid) == (s.running # NoPid /\ s.running = pid) \/ pid \in (Elems(s.ready) \cup Elems(s.blocked) \cup Elems(s.zombies) \cup Elems(s.finished))
finalize_pid(s, pid) ==
  IF s.running # NoPid /\ s.running = pid
  THEN LET s1 == orphan_dependents(finish_to_state(s, pid), pid) IN [s1 EXCEPT !.running = NoPid]
  ELSE IF pid \in Elems(s.ready)
  THEN orphan_dependents(finish_to_state([s EXCEPT !.ready = list_remove(s.ready, pid)], pid), pid)
  ELSE IF pid \in Elems(s.blocked)
  THEN orphan_dependents(finish_to_state([s EXCEPT !.blocked = list_remove(s.blocked, pid), !.procs[pid].block_reason = NoReason, !.procs[pid].waiting_for_pid = NoPid, !.procs[pid].io_remaining = 0], pid), pid)
  ELSE IF pid \in Elems(s.zombies)
  THEN LET s1 == set_state([s EXCEPT !.zombies = list_remove(s.zombies, pid)], pid, "FINISHED") IN [s1 EXCEPT !.finished = Append(s1.finished, pid)]
  ELSE IF pid \in Elems(s.finished)
  THEN orphan_dependents(finish_to_state([s EXCEPT !.finished = list_remove(s.finished, pid)], pid), pid)
  ELSE s

\* ------------------------------------------------------- dependencies
depend_on_ret(s, caller_pid) == get_proc(s, caller_pid) # NoPid
depend_on(s, caller_pid, callee_pid) ==
  IF get_proc(s, caller_pid) = NoPid THEN s
  ELSE LET p == caller_pid
           s1 == [s EXCEPT !.procs[p].block_reason = "DEPENDENCY", !.procs[p].waiting_for_pid = callee_pid]
       IN IF s1.running # NoPid /\ s1.running = caller_pid THEN block_running(s1, "DEPENDENCY", 0)
          ELSE LET s2 == set_state([s1 EXCEPT !.ready = list_remove(s1.ready, p)], p, "BLOCKED")
               IN [s2 EXCEPT !.blocked = Append(s2.blocked, p)]

\* a mailbox entry (from_pid, msg, time) is kept as [src, t]
mailbox_get(s, pid) == IF pid \in DOMAIN s.mailboxes THEN s.mailboxes[pid] ELSE <<>>
reply(s, from_pid, to_pid) == [s EXCEPT !.mailboxes = (to_pid :> Append(mailbox_get(s, to_pid), [src |-> from_pid, t |-> s.time])) @@ s.mailboxes]

ReplyIdx(inbox, src) == IF \E i \in 1..Len(inbox) : inbox[i].src = src THEN CHOOSE i \in 1..Len(inbox) : inbox[i].src = src /\ \A j \in 1..(i - 1) : inbox[j].src # src ELSE 0
RECURSIVE replies_loop(_, _)
replies_loop(s, snap) ==
  IF snap = <<>> THEN s
  ELSE LET p == Head(snap)
           idx == ReplyIdx(mailbox_get(s, p), s.procs[p].waiting_for_pid)
       IN IF s.procs[p].block_reason = "DEPENDENCY" /\ s.procs[p].waiting_for_pid # NoPid /\ idx # 0
          THEN LET s1 == [s EXCEPT !.mailboxes[p] = RemoveAt(s.mailboxes[p], idx), !.procs[p].block_reason = NoReason, !.procs[p].waiting_for_pid = NoPid]
                   s2 == set_state(s1, p, "READY")
               IN replies_loop([s2 EXCEPT !.blocked = list_remove(s2.blocked, p), !.ready = Append(s2.ready, p)], Tail(snap))
          ELSE replies_loop(s, Tail(snap))
unblock_by_replies(s) == IF s.blocked = <<>> THEN s ELSE replies_loop(s, s.blocked)

RECURSIVE dependents_loop(_, _, _)
dependents_loop(s, snap, callee_pid) ==
  IF snap = <<>> THEN s
  ELSE LET p == Head(snap)
       IN IF s.procs[p].block_reason = "DEPENDENCY" /\ s.procs[p].waiting_for_pid = callee_pid
          THEN LET s1 == [s EXCEPT !.blocked = list_remove(s.blocked, p), !.procs[p].block_reason = NoReason, !.procs[p].waiting_for_pid = NoPid]
                   s2 == set_state(s1, p, "READY")
               IN dependents_loop([s2 EXCEPT !.ready = Append(s2.ready, p)], Tail(snap), callee_pid)
          ELSE dependents_loop(s, Tail(snap), callee_pid)
unblock_dependents_of(s, callee_pid) == dependents_loop(s, s.blocked, callee_pid)

\* ------------------------------------------------------------ zombies
RECURSIVE reap_loop(_, _)
reap_loop(s, snap) ==
  IF snap = <<>> THEN s
  ELSE LET p == Head(snap)
           s1 == set_state(s, p, "FINISHED")
       IN reap_loop([s1 EXCEPT !.zombies = list_remove(s1.zombies, p), !.finished = Append(s1.finished, p)], Tail(snap))
\* variant for comparison: the entries are moved and keep the state ZOMBIE
reap_zombies_keeps_state(s) == [s EXCEPT !.finished = s.finished \o s.zombies, !.zombies = <<>>]
reap_zombies(s) == reap_loop(s, s.zombies)

\* -------------------------------------------------------------- reset
\* variant for comparison: the pid counter survives the reset
reset_keeps_next_pid(s, keep_options) == [SchedulerInit(IF keep_options THEN s.simulate_zombie ELSE FALSE, IF keep_options THEN s.repeat_mode ELSE TRUE) EXCEPT !.next_pid = s.next_pid]
reset(s, keep_options) == SchedulerInit(IF keep_options THEN s.simulate_zombie ELSE FALSE, IF keep_options THEN s.repeat_mode ELSE TRUE)

\* ------------------------------------------------------------------ tick
\* rnd holds the values the calls of self._rnd return in this tick:
\*   arrive = (random() < 0.05), burst = randint(3, 10),
\*   block  = (random() < 0.04), io    = randint(3, 10)
tick_arrivals(s, auto_arrivals, rnd) ==
  IF ~auto_arrivals THEN s
  ELSE LET active == (IF s.running # NoPid THEN 1 ELSE 0) + Len(s.ready) + Len(s.blocked)
       IN IF active > 0
          THEN LET s1 == IF rnd.arrive THEN create_process(s, rnd.burst) ELSE s
               IN [s1 EXCEPT !.spawned_when_empty = FALSE]
          ELSE IF ~s.spawned_when_empty
               THEN [create_process(s, rnd.burst) EXCEPT !.spawned_when_empty = TRUE]
               ELSE s

RECURSIVE io_loop(_, _)
io_loop(s, snap) ==
  IF snap = <<>> THEN s
  ELSE LET p == Head(snap)
       IN IF s.procs[p].block_reason = "IO" /\ s.procs[p].io_remaining > 0
          THEN LET s1 == [s EXCEPT !.procs[p].io_remaining = s.procs[p].io_remaining - 1]
               IN IF s1.procs[p].io_remaining <= 0
                  THEN LET s2 == set_state([s1 EXCEPT !.procs[p].block_reason = NoReason], p, "READY")
                       IN io_loop([s2 EXCEPT !.blocked = list_remove(s2.blocked, p), !.ready = Append(s2.ready, p)], Tail(snap))
                  ELSE io_loop(s1, Tail(snap))
          ELSE io_loop(s, Tail(snap))
tick_io(s) == io_loop(s, s.blocked)

\* variant for comparison: step 6 revives the FINISHED processes only
tick_revive_finished_only(s) == IF s.repeat_mode /\ (s.ready = <<>> /\ s.running = NoPid) /\ (s.finished # <<>> \/ s.zombies # <<>>) THEN revive_for_cycle(s, FALSE) ELSE s
tick_revive(s) == IF s.repeat_mode /\ (s.ready = <<>> /\ s.running = NoPid) /\ (s.finished # <<>> \/ s.zombies # <<>>) THEN revive_for_cycle(s, TRUE) ELSE s

\* steps 1-6: the state in which step 7 decides whether to dispatch
tick_before_dispatch(s, auto_arrivals, rnd) == tick_revive(unblock_by_replies(tick_io(admit_all_new(tick_arrivals([s EXCEPT !.time = s.time + 1], auto_arrivals, rnd)))))

\* step 8, the part after the release of the dependents
tick_execute(s, auto_blocks, rnd) ==
  IF auto_blocks /\ rnd.block THEN block_running(s, "IO", rnd.io)
  ELSE LET p == s.running
           s1 == [s EXCEPT !.procs[p].remaining_time = s.procs[p].remaining_time - 1, !.quantum_used = s.quantum_used + 1]
       IN IF s1.procs[p].remaining_time <= 0 THEN finish_running(s1) ELSE preempt_running_if_needed(s1)
tick_run(s, auto_blocks, rnd) == IF s.running # NoPid THEN tick_execute(unblock_dependents_of(s, s.running), auto_blocks, rnd) ELSE s

tick(s, auto_arrivals, auto_blocks, rnd) == tick_run(dispatch(tick_before_dispatch(s, auto_arrivals, rnd)), auto_blocks, rnd)

\* ------------------------------------------------------ MainWindow handlers
on_toggle_repeat(s, checked) == LET s1 == [s EXCEPT !.repeat_mode = checked] IN IF checked THEN revive_for_cycle(s1, TRUE) ELSE s1
on_toggle_zombie(s, checked) == [s EXCEPT !.simulate_zombie = checked]

\* ================================================================ state
VARIABLES time, next_pid, simulate_zombie, repeat_mode, new, ready, blocked, finished, zombies, running, procs, mailboxes, spawned_when_empty, quantum_used, wrr_idx, wrr_budget

\* history: ops = operations invoked so far; h_life = pids handed out since
\* construction; h_epoch = pids handed out since construction or the last reset;
\* h_charged = execution ticks charged to the holder of the RUNNING slot since its
\* dispatch; h_since = the same, counted from its dispatch or the last
\* set_priority on it; h_window = classes of the latest dispatches, all made with
\* the three classes present in READY; h_run = the holders of the RUNNING slot in
\* step 8 of the latest ticks (NoPid for a tick that ran nothing)
VARIABLES ops, h_life, h_epoch, h_charged, h_since, h_window, h_run

svars == <<time, next_pid, simulate_zombie, repeat_mode, new, ready, blocked, finished, zombies, running, procs, mailboxes, spawned_when_empty, quantum_used, wrr_idx, wrr_budget>>
hvars == <<ops, h_life, h_epoch, h_charged, h_since, h_window, h_run>>
vars == <<svars, hvars>>

\* the scheduler object as one record, and the assignment of one to the variables
Cur == [time |-> time, next_pid |-> next_pid, simulate_zombie |-> simulate_zombie, repeat_mode |-> repeat_mode, new |-> new, ready |-> ready, blocked |-> blocked, finished |-> finished, zombies |-> zombies, running |-> running, procs |-> procs, mailboxes |-> mailboxes, spawned_when_empty |-> spawned_when_empty, quantum_used |-> quantum_used, wrr_idx |-> wrr_idx, wrr_budget |-> wrr_budget]
Becomes(s) ==
  /\ time' = s.time /\ next_pid' = s.next_pid /\ simulate_zombie' = s.simulate_zombie /\ repeat_mode' = s.repeat_mode
  /\ new' = s.new /\ ready' = s.ready /\ blocked' = s.blocked /\ finished' = s.finished /\ zombies' = s.zombies
  /\ running' = s.running /\ procs' = s.procs /\ mailboxes' = s.mailboxes /\ spawned_when_empty' = s.spawned_when_empty
  /\ quantum_used' = s.quantum_used /\ wrr_idx' = s.wrr_idx /\ wrr_budget' = s.wrr_budget
Starts(s) ==
  /\ time = s.time /\ next_pid = s.next_pid /\ simulate_zombie = s.simulate_zombie /\ repeat_mode = s.repeat_mode
  /\ new = s.new /\ ready = s.ready /\ blocked = s.blocked /\ finished = s.finished /\ zombies = s.zombies
  /\ running = s.running /\ procs = s.procs /\ mailboxes = s.mailboxes /\ spawned_when_empty = s.spawned_when_empty
  /\ quantum_used = s.quantum_used /\ wrr_idx = s.wrr_idx /\ wrr_budget = s.wrr_budget

\* ------------------------------------------------------------ input sets
PidArgs == 1..MaxProcs
BurstArgs == 1..MaxBurst
ArrivalBursts == RandLo..Min(RandHi, MaxArrivalBurst)
IoDraws == RandLo..Min(RandHi, MaxIo)
Entries(s) == Len(s.new) + Len(s.ready) + Len(s.blocked) + Len(s.finished) + Len(s.zombies) + (IF s.running # NoPid THEN 1 ELSE 0)
\* the draws a tick can read, without the ones it does not read
ArrivalDraws(s, auto_arrivals, cap) ==
  IF ~auto_arrivals THEN {[arrive |-> FALSE, burst |-> RandLo]}
  ELSE IF s.running # NoPid \/ s.ready # <<>> \/ s.blocked # <<>>
       THEN {[arrive |-> FALSE, burst |-> RandLo]} \cup (IF s.next_pid <= cap THEN {[arrive |-> TRUE, burst |-> b] : b \in ArrivalBursts} ELSE {})
       ELSE IF s.spawned_when_empty THEN {[arrive |-> FALSE, burst |-> RandLo]}
            ELSE IF s.next_pid <= cap THEN {[arrive |-> FALSE, burst |-> b] : b \in ArrivalBursts} ELSE {}
BlockDraws(auto_blocks) == IF auto_blocks THEN {[block |-> FALSE, io |-> RandLo]} \cup {[block |-> TRUE, io |-> d] : d \in IoDraws} ELSE {[block |-> FALSE, io |-> RandLo]}
Draws(s, auto_arrivals, auto_blocks, cap) == {[arrive |-> a.arrive, burst |-> a.burst, block |-> b.block, io |-> b.io] : a \in ArrivalDraws(s, auto_arrivals, cap), b \in BlockDraws(auto_blocks)}

\* ---------------------------------------------------------------- actions
Init == ops = 0 /\ h_life = <<>> /\ h_epoch = <<>> /\ h_charged = 0 /\ h_since = 0 /\ h_window = <<>> /\ h_run = <<>> /\ \E simz, rep \in BOOLEAN : Starts(SchedulerInit(simz, rep))

\* one operation of the scheduler taking it to state s
Op(s) == ops < MaxOps /\ ops' = ops + 1 /\ Becomes(s) /\ UNCHANGED <<h_life, h_epoch, h_charged, h_since, h_window, h_run>>

CreateProcess == \E burst \in BurstArgs : next_pid <= MaxProcs /\ Op(create_process(Cur, burst))
SetPriority == \E pid \in PidArgs, prio \in Priority : Op(set_priority(Cur, pid, prio))
AdmitAllNew == Op(admit_all_new(Cur))
Dispatch == Op(dispatch(Cur))
Tick == \E auto_arrivals, auto_blocks \in BOOLEAN : \E rnd \in Draws(Cur, auto_arrivals, auto_blocks, MaxProcs) : Op(tick(Cur, auto_arrivals, auto_blocks, rnd))
BlockRunning == \E d \in IoDraws : Op(block_running(Cur, "IO", d))
PauseRunning == Op(pause_running(Cur))
UnblockPid == \E pid \in PidArgs : Op(unblock_pid(Cur, pid))
DependOn == \E caller_pid, callee_pid \in PidArgs : Entries(depend_on(Cur, caller_pid, callee_pid)) <= (next_pid - 1) + MaxDup /\ Op(depend_on(Cur, caller_pid, callee_pid))
FinalizePid == \E pid \in PidArgs : Op(finalize_pid(Cur, pid))
ReapZombies == Op(reap_zombies(Cur))
ToggleRepeat == \E checked \in BOOLEAN : Op(on_toggle_repeat(Cur, checked))
ToggleZombie == \E checked \in BOOLEAN : Op(on_toggle_zombie(Cur, checked))
Reset == \E keep_options \in BOOLEAN : Op(reset(Cur, keep_options))

Next == CreateProcess \/ SetPriority \/ AdmitAllNew \/ Dispatch \/ Tick \/ BlockRunning \/ PauseRunning \/ UnblockPid \/ DependOn \/ FinalizePid \/ ReapZombies \/ ToggleRepeat \/ ToggleZombie \/ Reset
Spec == Init /\ [][Next]_vars

\* ---------------------------------------------- SpecArgs: any burst argument
AnyBurstArgs == (0 - 1)..MaxBurst
ArgsCreate == \E burst \in AnyBurstArgs : next_pid <= MaxProcs /\ Op(create_process(Cur, burst))
NextArgs == ArgsCreate \/ AdmitAllNew \/ Dispatch \/ Tick \/ FinalizePid
SpecArgs == Init /\ [][NextArgs]_vars

\* ------------------------------------- SpecPid: the pids handed out, with reset
\* the pids of the processes a step from s to s2 created
Created(s, s2) == SubSeq(s2.new, Len(s.new) + 1, Len(s2.new))
PidOp(s, made) == ops < MaxOps /\ ops' = ops + 1 /\ Becomes(s) /\ h_life' = h_life \o made /\ h_epoch' = h_epoch \o made /\ UNCHANGED <<h_charged, h_since, h_window, h_run>>
PidCreate == \E burst \in BurstArgs : next_pid <= MaxProcs /\ PidOp(create_process(Cur, burst), Created(Cur, create_process(Cur, burst)))
PidTick == \E auto_arrivals \in BOOLEAN : \E rnd \in Draws(Cur, auto_arrivals, FALSE, MaxProcs) : PidOp(tick(Cur, auto_arrivals, FALSE, rnd), Created(Cur, tick_arrivals(Cur, auto_arrivals, rnd)))
PidReset == \E keep_options \in BOOLEAN : ops < MaxOps /\ ops' = ops + 1 /\ Becomes(reset(Cur, keep_options)) /\ h_epoch' = <<>> /\ UNCHANGED <<h_life, h_charged, h_since, h_window, h_run>>
NextPid == PidCreate \/ PidTick \/ PidReset \/ AdmitAllNew \/ FinalizePid
SpecPid == Init /\ [][NextPid]_vars

\* --------------------------- SpecQ: ticks, arrivals and set_priority between ticks
\* the part of a tick the histories read: whether step 7 dispatched, and whom step 8 ran
TickDispatched(s, auto_arrivals, rnd) == LET s6 == tick_before_dispatch(s, auto_arrivals, rnd) IN s6.running = NoPid /\ s6.ready # <<>>
TickRunner(s, auto_arrivals, rnd) == dispatch(tick_before_dispatch(s, auto_arrivals, rnd)).running
ChargedAfter(h, s, auto_arrivals, auto_blocks, rnd) ==
  LET p == TickRunner(s, auto_arrivals, rnd)
      base == IF TickDispatched(s, auto_arrivals, rnd) THEN 0 ELSE h
  IN IF p # NoPid /\ tick(s, auto_arrivals, auto_blocks, rnd).running = p THEN base + 1 ELSE 0
QSetPriority == \E pid \in 1..MaxQProcs, prio \in Priority : Becomes(set_priority(Cur, pid, prio)) /\ h_since' = (IF running # NoPid /\ running = pid THEN 0 ELSE h_since) /\ UNCHANGED <<ops, h_life, h_epoch, h_charged, h_window, h_run>>
QTick ==
  \E auto_arrivals \in BOOLEAN : \E rnd \in Draws(Cur, auto_arrivals, FALSE, MaxQProcs) :
    /\ time < MaxQTime
    /\ Becomes(tick(Cur, auto_arrivals, FALSE, rnd))
    /\ h_charged' = ChargedAfter(h_charged, Cur, auto_arrivals, FALSE, rnd)
    /\ h_since' = ChargedAfter(h_since, Cur, auto_arrivals, FALSE, rnd)
    /\ UNCHANGED <<ops, h_life, h_epoch, h_window, h_run>>
NextQ == QSetPriority \/ QTick
SpecQ == Init /\ [][NextQ]_vars

\* ------------------------------------------ SpecWRR: the dispatches of a population
SumWeights == WRR_WEIGHTS("HIGH") + WRR_WEIGHTS("MEDIUM") + WRR_WEIGHTS("LOW")
AllClassesReady(s) == \A c \in Priority : \E i \in 1..Len(s.ready) : s.procs[s.ready[i]].priority = c
LastN(q, n) == IF Len(q) <= n THEN q ELSE SubSeq(q, Len(q) - n + 1, Len(q))
\* the window after the dispatch step is applied to s (s6 in a tick)
WindowAfter(h, s) ==
  IF ~(s.running = NoPid /\ s.ready # <<>>) THEN h
  ELSE IF ~AllClassesReady(s) THEN <<>>
  ELSE LET s7 == dispatch(s) IN LastN(Append(h, s7.procs[s7.running].priority), SumWeights)
WBurstArgs == 1..MaxWBurst
\* MainWindow's scheduler, Scheduler(simulate_zombie=False, repeat_mode=True), after
\* create_process(bursts[i]) and set_priority(i, prios[i]) for i = 1..n, and admit_all_new
RECURSIVE create_all(_, _, _)
create_all(s, bursts, prios) == IF bursts = <<>> THEN s ELSE create_all(set_priority(create_process(s, Head(bursts)), s.next_pid, Head(prios)), Tail(bursts), Tail(prios))
InitWRR ==
  /\ ops = 0 /\ h_life = <<>> /\ h_epoch = <<>> /\ h_charged = 0 /\ h_since = 0 /\ h_window = <<>> /\ h_run = <<>>
  /\ \E n \in 1..MaxWProcs : \E bursts \in [1..n -> WBurstArgs], prios \in [1..n -> Priority] : Starts(admit_all_new(create_all(SchedulerInit(FALSE, TRUE), bursts, prios)))
WDispatch == Becomes(dispatch(Cur)) /\ h_window' = WindowAfter(h_window, Cur) /\ UNCHANGED <<ops, h_life, h_epoch, h_charged, h_since, h_run>>
WTick ==
  LET rnd == [arrive |-> FALSE, burst |-> RandLo, block |-> FALSE, io |-> RandLo]
  IN /\ time < MaxWTime
     /\ Becomes(tick(Cur, FALSE, FALSE, rnd))
     /\ h_window' = WindowAfter(h_window, tick_before_dispatch(Cur, FALSE, rnd))
     /\ UNCHANGED <<ops, h_life, h_epoch, h_charged, h_since, h_run>>
NextWRR == WDispatch \/ WTick
SpecWRR == InitWRR /\ [][NextWRR]_vars

\* ------------------------------- SpecLive: a population under repeated ticks
\* any scheduler after create_process and set_priority for each process of an
\* initial population and admit_all_new; then only the timer's ticks with or
\* without automatic arrivals, the clock
\* held at MaxLTime so that the ticks can go on for ever
InitLive ==
  /\ ops = 0 /\ h_life = <<>> /\ h_epoch = <<>> /\ h_charged = 0 /\ h_since = 0 /\ h_window = <<>> /\ h_run = <<>>
  /\ \E simz, rep \in BOOLEAN : \E n \in 0..MaxLProcs : \E bursts \in [1..n -> 1..MaxLBurst], prios \in [1..n -> Priority] : Starts(admit_all_new(create_all(SchedulerInit(simz, rep), bursts, prios)))
LTick ==
  \E auto_arrivals \in BOOLEAN : \E rnd \in Draws(Cur, auto_arrivals, FALSE, MaxLProcs) :
    /\ Becomes([tick(Cur, auto_arrivals, FALSE, rnd) EXCEPT !.time = Min(@, MaxLTime)])
    /\ h_run' = <<TickRunner(Cur, auto_arrivals, rnd)>>
    /\ UNCHANGED <<ops, h_life, h_epoch, h_charged, h_since, h_window>>
NextLive == LTick
\* the timer keeps ticking: weak fairness of LTick, WF_vars(LTick), written out
\* with the state predicate that says when a tick changes the state
LTickEnabled ==
  \E auto_arrivals \in BOOLEAN : \E rnd \in Draws(Cur, auto_arrivals, FALSE, MaxLProcs) :
    <<[tick(Cur, auto_arrivals, FALSE, rnd) EXCEPT !.time = Min(@, MaxLTime)], <<TickRunner(Cur, auto_arrivals, rnd)>>>> # <<Cur, h_run>>
TimerFairness == []<>(~LTickEnabled) \/ []<><<LTick>>_vars
SpecLive == InitLive /\ [][NextLive]_vars /\ TimerFairness

\* --------------------- SpecRR: equal MEDIUM processes run to completion
\* Scheduler(repeat_mode=False) after n calls of create_process(burst), all left
\* MEDIUM, and admit_all_new; then ticks without arrivals and random blocks until
\* every process is complete
Complete(s) == \A pid \in DOMAIN s.procs : s.procs[pid].state \in {"FINISHED", "ZOMBIE"}
InitRR ==
  /\ ops = 0 /\ h_life = <<>> /\ h_epoch = <<>> /\ h_charged = 0 /\ h_since = 0 /\ h_window = <<>> /\ h_run = <<>>
  /\ \E simz \in BOOLEAN : \E n \in 1..MaxRProcs, burst \in 1..MaxRBurst : Starts(admit_all_new(create_all(SchedulerInit(simz, FALSE), [i \in 1..n |-> burst], [i \in 1..n |-> "MEDIUM"])))
RTick ==
  LET rnd == [arrive |-> FALSE, burst |-> RandLo, block |-> FALSE, io |-> RandLo]
  IN /\ ~Complete(Cur)
     /\ Becomes(tick(Cur, FALSE, FALSE, rnd))
     /\ h_run' = Append(h_run, TickRunner(Cur, FALSE, rnd))
     /\ UNCHANGED <<ops, h_life, h_epoch, h_charged, h_since, h_window>>
NextRR == RTick
SpecRR == InitRR /\ [][NextRR]_vars

\* ------------------------- SpecReply: dependencies answered by replies
\* create_process, admit_all_new, depend_on, reply and ticks on one scheduler
Reply == \E from_pid, to_pid \in PidArgs : Len(mailbox_get(Cur, to_pid)) < MaxMail /\ Op(reply(Cur, from_pid, to_pid))
ReplyTick == \E rnd \in Draws(Cur, FALSE, FALSE, MaxProcs) : Op(tick(Cur, FALSE, FALSE, rnd))
NextReply == CreateProcess \/ AdmitAllNew \/ DependOn \/ Reply \/ ReplyTick
SpecReply == Init /\ [][NextReply]_vars

\* ------------------ SpecTerm: a population run to its end without repeat mode
\* Scheduler(repeat_mode=False) after create_process and set_priority for the
\* first k processes, admit_all_new, possibly the dispatch of on_add, and
\* create_process and set_priority for the others, which stay NEW; then ticks
\* without arrivals and random blocks until every process is complete
RECURSIVE SumTo(_, _)
SumTo(f, n) == IF n = 0 THEN 0 ELSE f[n] + SumTo(f, n - 1)
RemainingWork(s) == SumTo([pid \in DOMAIN s.procs |-> s.procs[pid].remaining_time], Len(s.procs))
TotalBurst(s) == SumTo([pid \in DOMAIN s.procs |-> s.procs[pid].burst_time], Len(s.procs))
InitTerm ==
  /\ ops = 0 /\ h_life = <<>> /\ h_epoch = <<>> /\ h_charged = 0 /\ h_since = 0 /\ h_window = <<>> /\ h_run = <<>>
  /\ \E simz, on_add \in BOOLEAN : \E n \in 1..MaxTProcs : \E k \in 0..n : \E bursts \in [1..n -> 1..MaxTBurst], prios \in [1..n -> Priority] :
       LET admitted == admit_all_new(create_all(SchedulerInit(simz, FALSE), SubSeq(bursts, 1, k), SubSeq(prios, 1, k)))
           started == IF on_add THEN dispatch(admitted) ELSE admitted
       IN Starts(create_all(started, SubSeq(bursts, k + 1, n), SubSeq(prios, k + 1, n)))
TTick ==
  LET rnd == [arrive |-> FALSE, burst |-> RandLo, block |-> FALSE, io |-> RandLo]
  IN /\ ~Complete(Cur)
     /\ Becomes(tick(Cur, FALSE, FALSE, rnd))
     /\ h_run' = Append(h_run, TickRunner(Cur, FALSE, rnd))
     /\ UNCHANGED <<ops, h_life, h_epoch, h_charged, h_since, h_window>>
NextTerm == TTick
\* the timer keeps ticking: weak fairness of TTick, WF_vars(TTick), written out;
\* a tick is enabled, and advances the clock, exactly while a process is not complete
TermFairness == []<>(Complete(Cur)) \/ []<><<TTick>>_vars
SpecTerm == InitTerm /\ [][NextTerm]_vars /\ TermFairness

\* ================================================================ claims
Pids == DOMAIN procs
Occurrences(pid) == Count(new, pid) + Count(ready, pid) + Count(blocked, pid) + Count(finished, pid) + Count(zombies, pid) + (IF running = pid THEN 1 ELSE 0)
WaitsOn(s, a, b) == a \in Elems(s.blocked) /\ s.procs[a].state = "BLOCKED" /\ s.procs[a].block_reason = "DEPENDENCY" /\ s.procs[a].waiting_for_pid = b

\* C1: after any sequence of operations at most one process has state RUNNING,
\* and a process whose state is RUNNING is the one held in the running slot.
SingleRunner ==
  /\ Cardinality({pid \in Pids : procs[pid].state = "RUNNING"}) <= 1
  /\ \A pid \in Pids : procs[pid].state = "RUNNING" => running = pid
\* two processes after a tick, one RUNNING in the slot and the other queued
SingleRunnerWitness == \E p, q \in Pids : p # q /\ time >= 1 /\ running = p /\ procs[p].state = "RUNNING" /\ q \in Elems(ready) /\ procs[q].state = "READY"

\* C2: every process created since the last reset stands exactly once over
\* new, ready, blocked, the running slot, finished and zombies, and its state
\* field names the collection that holds it.
MembershipConservation ==
  \A pid \in Pids :
    /\ Occurrences(pid) = 1
    /\ pid \in Elems(new) => procs[pid].state = "NEW"
    /\ pid \in Elems(ready) => procs[pid].state = "READY"
    /\ pid \in Elems(blocked) => procs[pid].state \in {"BLOCKED", "PAUSED"}
    /\ running = pid => procs[pid].state = "RUNNING"
    /\ pid \in Elems(finished) => procs[pid].state = "FINISHED"
    /\ pid \in Elems(zombies) => procs[pid].state = "ZOMBIE"

\* C3 (as claimed): over the lifetime of one Scheduler instance the pids handed
\* out are strictly increasing, so none is handed out twice.
PidsIncreasingLifetime == \A i, j \in 1..Len(h_life) : i < j => h_life[i] < h_life[j]
\* C3 (amended): the pids handed out since construction or the last reset are
\* strictly increasing, so none is handed out twice between two resets.
PidsIncreasingSinceReset == \A i, j \in 1..Len(h_epoch) : i < j => h_epoch[i] < h_epoch[j]
\* two pids handed out after an earlier reset
PidsIncreasingWitness == Len(h_epoch) >= 2 /\ Len(h_life) > Len(h_epoch)

\* C4: a window of sum-of-weights consecutive dispatches, each made with HIGH,
\* MEDIUM and LOW all present in READY, holds a dispatch of each class.
NoStarvationWindow == Len(h_window) = SumWeights => \A c \in Priority : \E i \in 1..Len(h_window) : h_window[i] = c
NoStarvationWitness == Len(h_window) = SumWeights

\* C5 (as claimed): at the end of a tick that leaves a process in the RUNNING
\* slot while READY is non-empty, the ticks charged to it since its dispatch
\* are fewer than PRIO_QUANTUM of its priority (it is preempted in the tick
\* that charges the full quantum, so it is never charged more).
QuantumBound == [][time' = time + 1 => ((running' # NoPid /\ ready' # <<>>) => h_charged' < PRIO_QUANTUM(procs'[running'].priority))]_vars
\* C5 (amended): the same for the ticks charged since its dispatch or since the
\* last set_priority call on it, which restarts the count.
QuantumBoundSinceSetPriority == [][time' = time + 1 => ((running' # NoPid /\ ready' # <<>>) => h_since' < PRIO_QUANTUM(procs'[running'].priority))]_vars
\* a process preempted after its quantum: queued last behind another, partly run
QuantumBoundWitness == running = NoPid /\ Len(ready) >= 2 /\ procs[ready[Len(ready)]].remaining_time > 0 /\ procs[ready[Len(ready)]].remaining_time < procs[ready[Len(ready)]].burst_time /\ procs[ready[Len(ready)]].io_remaining = 0 /\ blocked = <<>> /\ h_charged = 0

\* C6: when finalize_pid(b) succeeds on b in whatever state, every process that
\* was BLOCKED/DEPENDENCY on b before the call is ZOMBIE, and in zombies, after it.
DependencySafety ==
  [][\A b \in PidArgs : (finalize_pid_ret(Cur, b) /\ Becomes(finalize_pid(Cur, b))) =>
       \A a \in Pids : (a # b /\ WaitsOn(Cur, a, b)) => (procs'[a].state = "ZOMBIE" /\ a \in Elems(zombies'))]_vars

\* C7: remaining_time of every process is >= 0 in every state, and after a tick
\* the holder of the RUNNING slot has remaining_time > 0 (a process that reached
\* 0 in the tick has left the slot).
RemainingNonNegative ==
  [][/\ \A pid \in DOMAIN procs' : procs'[pid].remaining_time >= 0
     /\ (time' = time + 1 /\ running' # NoPid) => procs'[running'].remaining_time > 0]_vars

\* C8: every process whose state is not BLOCKED/PAUSED has block_reason None,
\* waiting_for_pid None and io_remaining 0.
BlockFieldsCleared ==
  \A pid \in Pids : procs[pid].state \notin {"BLOCKED", "PAUSED"} =>
    (procs[pid].block_reason = NoReason /\ procs[pid].waiting_for_pid = NoPid /\ procs[pid].io_remaining = 0)

\* C9: only bursts > 0 create a process: no process exists whose burst_time is
\* zero or negative.
CreateRejectsNonPositiveBurst == \A pid \in Pids : procs[pid].burst_time > 0

\* C10: depend_on(p, p) fails and leaves the state unchanged: no process ever
\* has waiting_for_pid equal to its own pid.
NoSelfDependency == \A pid \in Pids : procs[pid].waiting_for_pid # pid


\* C11: a call that reports failure leaves the scheduler as it was: in every
\* state, block_running and pause_running with nothing RUNNING, unblock_pid of a
\* pid that is not in blocked, and finalize_pid, set_priority and depend_on of a
\* pid they do not find, return the state unchanged.
FailureLeavesStateUnchanged ==
  /\ ~block_running_ret(Cur) => (pause_running(Cur) = Cur /\ \A reason \in BlockReason, d \in IoDraws : block_running(Cur, reason, d) = Cur)
  /\ \A pid \in PidArgs :
       /\ ~unblock_pid_ret(Cur, pid) => unblock_pid(Cur, pid) = Cur
       /\ ~finalize_pid_ret(Cur, pid) => finalize_pid(Cur, pid) = Cur
       /\ ~set_priority_ret(Cur, pid) => \A prio \in Priority : set_priority(Cur, pid, prio) = Cur
       /\ ~depend_on_ret(Cur, pid) => \A callee_pid \in PidArgs : depend_on(Cur, pid, callee_pid) = Cur
\* nothing RUNNING, one process queued and not blocked, another still NEW (which
\* finalize_pid does not find), and a pid that was never handed out
FailureWitness ==
  /\ running = NoPid /\ ready # <<>> /\ time >= 1
  /\ \E pid \in PidArgs : pid \in Elems(new) /\ ~finalize_pid_ret(Cur, pid) /\ ~unblock_pid_ret(Cur, pid)


\* C12: unblock_pid(pid) of a process in blocked removes it from blocked, makes
\* it READY with block_reason, waiting_for_pid and io_remaining cleared, appends
\* it at the tail of ready, and changes no other process and no other collection.
Others(q, pid) == SelectSeq(q, LAMBDA x : x # pid)
UnblockFrame ==
  [][\A pid \in PidArgs : (unblock_pid_ret(Cur, pid) /\ Becomes(unblock_pid(Cur, pid))) =>
       /\ pid \notin Elems(blocked') /\ Others(blocked', pid) = Others(blocked, pid)
       /\ procs'[pid] = [procs[pid] EXCEPT !.state = "READY", !.block_reason = NoReason, !.waiting_for_pid = NoPid, !.io_remaining = 0]
       /\ ready' = Append(ready, pid)
       /\ \A q \in Pids \ {pid} : procs'[q] = procs[q]
       /\ UNCHANGED <<new, finished, zombies, running, time, next_pid, mailboxes, quantum_used, wrr_idx, wrr_budget>>]_vars


\* C13: finalize_pid(pid), when it succeeds, gives the process the destination
\* (state and collection) that _finish_running gives a process completing under
\* the same repeat_mode and simulate_zombie, and every process that was
\* BLOCKED/DEPENDENCY on it is ZOMBIE afterwards.
FinalizeAsCompletion ==
  [][\A pid \in PidArgs : (finalize_pid_ret(Cur, pid) /\ Becomes(finalize_pid(Cur, pid))) =>
       LET natural == finish_running([Cur EXCEPT !.running = pid])
       IN /\ procs'[pid].state = natural.procs[pid].state
          /\ (pid \in Elems(ready')) = (natural.procs[pid].state = "READY")
          /\ (pid \in Elems(finished')) = (natural.procs[pid].state = "FINISHED")
          /\ (pid \in Elems(zombies')) = (natural.procs[pid].state = "ZOMBIE")
          /\ \A a \in Pids \ {pid} : WaitsOn(Cur, a, pid) => procs'[a].state = "ZOMBIE"]_vars


\* C14: every change of a process's state made by an operation (by each step of
\* a tick) is one of NEW->READY, READY->RUNNING, RUNNING->READY,
\* RUNNING->BLOCKED/PAUSED, BLOCKED/PAUSED->READY, BLOCKED->ZOMBIE,
\* RUNNING->FINISHED, RUNNING->ZOMBIE, ZOMBIE->FINISHED, FINISHED/ZOMBIE->READY.
LifecycleRelation ==
  {<<"NEW", "READY">>, <<"READY", "RUNNING">>, <<"RUNNING", "READY">>, <<"RUNNING", "BLOCKED">>, <<"RUNNING", "PAUSED">>,
   <<"BLOCKED", "READY">>, <<"PAUSED", "READY">>, <<"BLOCKED", "ZOMBIE">>, <<"RUNNING", "FINISHED">>, <<"RUNNING", "ZOMBIE">>,
   <<"ZOMBIE", "FINISHED">>, <<"FINISHED", "READY">>, <<"ZOMBIE", "READY">>}
InRelation(s, s2) == \A pid \in DOMAIN s.procs : s2.procs[pid].state = s.procs[pid].state \/ <<s.procs[pid].state, s2.procs[pid].state>> \in LifecycleRelation
TickInRelation(s, auto_arrivals, auto_blocks, rnd) ==
  LET s2 == tick_arrivals([s EXCEPT !.time = s.time + 1], auto_arrivals, rnd)
      s3 == admit_all_new(s2)
      s4 == tick_io(s3)
      s5 == unblock_by_replies(s4)
      s6 == tick_revive(s5)
      s7 == dispatch(s6)
      s8 == IF s7.running # NoPid THEN unblock_dependents_of(s7, s7.running) ELSE s7
  IN InRelation(s, s2) /\ InRelation(s2, s3) /\ InRelation(s3, s4) /\ InRelation(s4, s5) /\ InRelation(s5, s6) /\ InRelation(s6, s7) /\ InRelation(s7, s8) /\ InRelation(s8, tick(s, auto_arrivals, auto_blocks, rnd))
LifecycleTransitions ==
  [][/\ time' = time => (next_pid' >= next_pid => InRelation(Cur, [procs |-> procs']))
     /\ time' = time + 1 => \A auto_arrivals, auto_blocks \in BOOLEAN : \A rnd \in Draws(Cur, auto_arrivals, auto_blocks, MaxProcs) :
           Becomes(tick(Cur, auto_arrivals, auto_blocks, rnd)) => TickInRelation(Cur, auto_arrivals, auto_blocks, rnd)]_vars


\* C15: a tick with auto_arrivals that starts with the system idle (no NEW, READY
\* or RUNNING process) creates exactly one process, whatever happened before
\* (also after finalize_pid removed the process injected by the previous tick).
IdleInjection ==
  system_empty(Cur) => \A auto_blocks \in BOOLEAN : \A rnd \in Draws(Cur, TRUE, auto_blocks, MaxProcs) : tick(Cur, TRUE, auto_blocks, rnd).next_pid = next_pid + 1


\* C16: under repeated ticks and no other command, every process that stands in
\* READY later holds the RUNNING slot in the execution step of a tick, whatever
\* its class and whatever arrives or re-queues in the other classes.
EventuallyDispatched == \A pid \in 1..MaxLProcs : (pid \in Elems(ready)) ~> (h_run = <<pid>>)
\* a LOW process runs while a HIGH one is queued
EventuallyDispatchedWitness == \E pid \in Pids : h_run = <<pid>> /\ procs[pid].priority = "LOW" /\ time >= 2 /\ \E q \in Elems(ready) : q # pid /\ procs[q].priority = "HIGH"


\* C17: with the three classes backlogged, the dispatcher follows the documented
\* weights Alta 2, Media 1, Baja 1 (cycle HIGH, HIGH, MEDIUM, LOW): any 4
\* consecutive dispatches hold two of HIGH, one of MEDIUM and one of LOW.
DocumentedWeights ==
  \A i \in 1..(Len(h_window) - 3) :
    LET cycle == SubSeq(h_window, i, i + 3)
    IN Count(cycle, "HIGH") = 2 /\ Count(cycle, "MEDIUM") = 1 /\ Count(cycle, "LOW") = 1


\* C18 (as claimed): equal MEDIUM processes, admitted together and run without
\* repeat mode, arrivals, random blocks and commands, get the CPU in round-robin
\* order in chunks of exactly 2 ticks, each is charged burst_time ticks, and all
\* are complete after sum-of-bursts ticks.
NProcs == Cardinality(Pids)
RoundRobinChunksOfTwo ==
  /\ \A t \in 1..Len(h_run) : h_run[t] = (((t - 1) \div 2) % NProcs) + 1
  /\ Complete(Cur) => (\A pid \in Pids : Count(h_run, pid) = procs[pid].burst_time /\ Len(h_run) % 2 = 0)
  /\ Complete(Cur) <=> (\A pid \in Pids : time = NProcs * procs[pid].burst_time)
\* C18 (amended): the same, with chunks of 2 ticks in the rounds that leave every
\* process unfinished and a last chunk of burst_time mod 2 ticks in the closing
\* round (burst 5: chunks of 2, 2 and 1 ticks per process).
RoundRobinChunks ==
  /\ \A t \in 1..Len(h_run) :
       LET burst == procs[1].burst_time
           paired == 2 * NProcs * (burst \div 2)
       IN h_run[t] = (IF t <= paired THEN (((t - 1) \div 2) % NProcs) + 1 ELSE ((t - paired - 1) % NProcs) + 1)
  /\ Complete(Cur) => \A pid \in Pids : Count(h_run, pid) = procs[pid].burst_time
  /\ Complete(Cur) <=> (\A pid \in Pids : time = NProcs * procs[pid].burst_time)
\* the spec's case at its end: 3 processes of burst 5, complete after 15 ticks
RoundRobinWitness == NProcs = 3 /\ Complete(Cur) /\ Len(h_run) = 15 /\ \A pid \in Pids : procs[pid].burst_time = 5


\* C19: a tick that starts with the RUNNING slot empty and reaches step 7 with
\* READY non-empty dispatches a READY process and charges it one execution tick
\* or blocks it; finalize_pid of the RUNNING process frees the slot at once and,
\* if a process is READY, the next tick runs a process other than the finalised
\* one; a tick runs nothing only when READY is empty and nothing is RUNNING.
ChargedOrBlocked(s7, s8, p) ==
  \/ s8.procs[p].state = "BLOCKED" /\ s8.procs[p].block_reason = "IO" /\ s8.procs[p].remaining_time = s7.procs[p].remaining_time
  \/ s8.procs[p].remaining_time = s7.procs[p].remaining_time - 1
  \/ s7.procs[p].remaining_time = 1 /\ s8.procs[p].state = "READY" /\ s8.procs[p].remaining_time = s8.procs[p].burst_time
WorkConserving ==
  /\ \A auto_arrivals, auto_blocks \in BOOLEAN : \A rnd \in Draws(Cur, auto_arrivals, auto_blocks, MaxProcs) :
       LET s6 == tick_before_dispatch(Cur, auto_arrivals, rnd)
           s7 == dispatch(s6)
           s8 == tick_run(s7, auto_blocks, rnd)
       IN /\ (running = NoPid /\ s6.ready # <<>>) =>
               /\ s7.running \in Elems(s6.ready)
               /\ s6.procs[s7.running].state = "READY"
               /\ ChargedOrBlocked(s7, s8, s7.running)
          /\ (s7.running = NoPid) => (s6.ready = <<>> /\ running = NoPid)
  /\ running # NoPid =>
       LET f == finalize_pid(Cur, running)
       IN /\ f.running = NoPid
          /\ f.ready # <<>> => \A auto_arrivals \in BOOLEAN : \A rnd \in Draws(f, auto_arrivals, FALSE, MaxProcs) :
                TickRunner(f, auto_arrivals, rnd) \notin {NoPid, running}


\* C20: reset from any reachable state gives the state of a freshly constructed
\* scheduler: clock 0, the collections and the running slot empty, mailboxes
\* empty, quantum counter 0, WRR cursor at HIGH with its full budget, pid counter
\* 1; keep_options=True keeps simulate_zombie and repeat_mode, keep_options=False
\* sets them to False and True.
ResetRestoresFresh ==
  \A keep_options \in BOOLEAN :
    LET r == reset(Cur, keep_options)
    IN /\ r.time = 0 /\ r.next_pid = 1 /\ r.running = NoPid
       /\ r.new = <<>> /\ r.ready = <<>> /\ r.blocked = <<>> /\ r.finished = <<>> /\ r.zombies = <<>>
       /\ r.procs = <<>> /\ r.mailboxes = <<>> /\ r.spawned_when_empty = FALSE
       /\ r.quantum_used = 0 /\ PRIO_CYCLE[r.wrr_idx + 1] = "HIGH" /\ r.wrr_budget = WRR_WEIGHTS("HIGH")
       /\ r.simulate_zombie = (IF keep_options THEN simulate_zombie ELSE FALSE)
       /\ r.repeat_mode = (IF keep_options THEN repeat_mode ELSE TRUE)
       /\ \E simz, rep \in BOOLEAN : r = SchedulerInit(simz, rep)
\* a state that differs from a fresh one in clock, pid counter, slot, queues and
\* WRR budget, with both flags away from their defaults, so that the two values
\* of keep_options give different results
ResetWitness ==
  /\ time >= 2 /\ next_pid > 2 /\ running # NoPid /\ blocked # <<>> /\ wrr_budget # WRR_WEIGHTS("HIGH")
  /\ simulate_zombie /\ ~repeat_mode
  /\ reset(Cur, TRUE) # Cur /\ reset(Cur, TRUE) # reset(Cur, FALSE)


\* C21: reap_zombies gives every process in zombies (and every process whose
\* state is ZOMBIE) the state FINISHED, appends them to finished in the order of
\* the zombie list, leaves zombies empty and changes nothing else: new, ready,
\* blocked, the running slot, every remaining_time, the clock and the quantum and
\* WRR counters keep their values, and so does a process blocked on a reaped one.
ReapFrame ==
  LET r == reap_zombies(Cur)
  IN /\ r.zombies = <<>>
     /\ r.finished = finished \o zombies
     /\ DOMAIN r.procs = Pids
     /\ \A pid \in Pids :
          IF pid \in Elems(zombies) \/ procs[pid].state = "ZOMBIE"
          THEN r.procs[pid] = [procs[pid] EXCEPT !.state = "FINISHED"] /\ pid \in Elems(r.finished)
          ELSE r.procs[pid] = procs[pid]
     /\ r = [Cur EXCEPT !.zombies = r.zombies, !.finished = r.finished, !.procs = r.procs]
\* two zombies to reap, or one zombie with a process BLOCKED/DEPENDENCY on it
ReapWitness ==
  /\ zombies # <<>> /\ reap_zombies(Cur) # Cur
  /\ \E z \in Elems(zombies) : procs[z].state = "ZOMBIE" /\ \E a \in Pids \ {z} : WaitsOn(Cur, a, z)


\* C22: in every tick whose step 8 has a RUNNING process P, every process that is
\* BLOCKED/DEPENDENCY on P is moved from blocked to the tail of ready before P's
\* execution branch, also when P is then blocked for I/O or completes; the tick
\* leaves it READY in ready, never ZOMBIE.
ProgressRelease ==
  \A auto_arrivals, auto_blocks \in BOOLEAN : \A rnd \in Draws(Cur, auto_arrivals, auto_blocks, MaxProcs) :
    LET s7 == dispatch(tick_before_dispatch(Cur, auto_arrivals, rnd))
        P == s7.running
        released == unblock_dependents_of(s7, P)
        s8 == tick(Cur, auto_arrivals, auto_blocks, rnd)
    IN P # NoPid => \A a \in DOMAIN s7.procs : WaitsOn(s7, a, P) =>
         /\ a \notin Elems(released.blocked)
         /\ SubSeq(released.ready, 1, Len(s7.ready)) = s7.ready
         /\ a \in Elems(SubSeq(released.ready, Len(s7.ready) + 1, Len(released.ready)))
         /\ released.procs[a].state = "READY"
         /\ s8.procs[a].state = "READY" /\ a \in Elems(s8.ready) /\ a \notin Elems(s8.blocked) /\ a \notin Elems(s8.zombies)


\* C23: _pop_ready_by_priority(prio) removes and returns the earliest entry of
\* ready whose priority is prio and keeps the order of all the other entries;
\* with no such entry it returns None and changes nothing.
PopFifoWithinClass ==
  \A prio \in Priority :
    LET r == pop_ready_by_priority(Cur, prio)
        ofClass == {i \in 1..Len(ready) : procs[ready[i]].priority = prio}
    IN IF ofClass = {} THEN r.p = NoPid /\ r.s = Cur
       ELSE \E i \in ofClass :
              /\ \A j \in ofClass : i <= j
              /\ r.p = ready[i]
              /\ Len(r.s.ready) = Len(ready) - 1
              /\ \A k \in 1..Len(r.s.ready) : r.s.ready[k] = (IF k < i THEN ready[k] ELSE ready[k + 1])
              /\ r.s = [Cur EXCEPT !.ready = r.s.ready]
\* the dispatch took pid 2, the only HIGH process, from between pids 1 and 3
PopFifoWitness ==
  /\ running = 2 /\ ready = <<1, 3>> /\ time = 0
  /\ procs[2].priority = "HIGH" /\ procs[1].priority # "HIGH" /\ procs[3].priority # "HIGH"


\* C24: choose_next with READY non-empty finds a process within max_attempts
\* attempts, so the class-blind fallback is not executed; the chosen process was
\* in ready and has the class the cursor points at on return, that class's budget
\* is one less than before the choice and within 0..weight, the process is
\* RUNNING and the quantum counter is 0.
DispatcherSearchSucceeds ==
  /\ wrr_budget \in 0..WRR_WEIGHTS(PRIO_CYCLE[wrr_idx + 1])
  /\ ready # <<>> =>
       LET r == choose_next(Cur)
           class == PRIO_CYCLE[r.s.wrr_idx + 1]
           stayed == wrr_budget > 0 /\ \E i \in 1..Len(ready) : procs[ready[i]].priority = PRIO_CYCLE[wrr_idx + 1]
       IN /\ ~r.fallback
          /\ r.p \in Elems(ready) /\ Len(r.s.ready) = Len(ready) - 1
          /\ procs[r.p].priority = class
          /\ r.s.wrr_budget = (IF stayed THEN wrr_budget ELSE WRR_WEIGHTS(class)) - 1
          /\ stayed => r.s.wrr_idx = wrr_idx
          /\ r.s.wrr_budget \in 0..WRR_WEIGHTS(class)
          /\ r.s.procs[r.p].state = "RUNNING" /\ r.s.quantum_used = 0
\* the third dispatch of a population of HIGH processes only: the budget of HIGH
\* was used up and the cursor went round the three classes
DispatcherSearchWitness ==
  /\ running # NoPid /\ time = 2 /\ quantum_used = 0
  /\ \A pid \in Pids : procs[pid].priority = "HIGH"
  /\ wrr_idx = 0 /\ wrr_budget = WRR_WEIGHTS("HIGH") - 1


IsPrefix(q, r) == Len(q) <= Len(r) /\ SubSeq(r, 1, Len(q)) = q
CompletionDestination ==
  \A auto_arrivals \in BOOLEAN : \A rnd \in Draws(Cur, auto_arrivals, FALSE, MaxProcs) :
    LET s7 == dispatch(tick_before_dispatch(Cur, auto_arrivals, rnd))
        P == s7.running
        queued == unblock_dependents_of(s7, P).ready
        s8 == tick(Cur, auto_arrivals, FALSE, rnd)
    IN (P # NoPid /\ s7.procs[P].remaining_time = 1) =>
         /\ s8.running = NoPid
         /\ IF repeat_mode
            THEN /\ s8.ready = Append(queued, P) /\ s8.procs[P].state = "READY"
                 /\ s8.procs[P].remaining_time = s8.procs[P].burst_time
                 /\ s8.finished = s7.finished /\ s8.zombies = s7.zombies
            ELSE IF simulate_zombie
            THEN /\ s8.procs[P].state = "ZOMBIE" /\ s8.procs[P].remaining_time = 0
                 /\ IsPrefix(Append(s7.zombies, P), s8.zombies) /\ s8.finished = s7.finished /\ s8.ready = queued
            ELSE /\ s8.procs[P].state = "FINISHED" /\ s8.procs[P].remaining_time = 0
                 /\ s8.finished = Append(s7.finished, P) /\ IsPrefix(s7.zombies, s8.zombies) /\ s8.ready = queued
\* a process of burst 2 back in ready after it completed in repeat mode, behind
\* another process
CompletionWitness ==
  /\ repeat_mode /\ running = NoPid /\ time >= 2 /\ Len(ready) = 2 /\ finished = <<>> /\ zombies = <<>>
  /\ LET p == ready[2] IN ready[1] # p /\ procs[p].burst_time = 2 /\ procs[p].remaining_time = 2 /\ procs[p].state = "READY" /\ quantum_used = 2


\* C27: a process blocked for I/O gets io_remaining in 3..10 when it is blocked
\* and holds a value in 1..10 while it is BLOCKED/IO; each tick takes exactly 1
\* from it, and the tick that takes it to 0 moves the process to the tail of
\* ready before its dispatch step, so that none is released early or is left
\* blocked with a timer of 0.
BlockedForIo(s, pid) == pid \in Elems(s.blocked) /\ s.procs[pid].state = "BLOCKED" /\ s.procs[pid].block_reason = "IO"
IoCountdown ==
  /\ \A pid \in Pids : BlockedForIo(Cur, pid) => procs[pid].io_remaining \in 1..RandHi
  /\ running # NoPid => \A d \in IoDraws :
       LET b == block_running(Cur, "IO", d) IN BlockedForIo(b, running) /\ b.procs[running].io_remaining \in RandLo..RandHi
  /\ \A auto_arrivals, auto_blocks \in BOOLEAN : \A rnd \in Draws(Cur, auto_arrivals, auto_blocks, MaxProcs) :
       LET s6 == tick_before_dispatch(Cur, auto_arrivals, rnd)
           s7 == dispatch(s6)
           s8 == tick(Cur, auto_arrivals, auto_blocks, rnd)
       IN /\ \A pid \in Pids : BlockedForIo(Cur, pid) =>
               IF procs[pid].io_remaining = 1
               THEN /\ s6.procs[pid].io_remaining = 0 /\ s6.procs[pid].state = "READY"
                    /\ pid \in Elems(s6.ready) /\ pid \notin Elems(s6.blocked)
               ELSE /\ s6.procs[pid].io_remaining = procs[pid].io_remaining - 1 /\ BlockedForIo(s6, pid)
                    /\ s8.procs[pid].io_remaining = procs[pid].io_remaining - 1 /\ BlockedForIo(s8, pid)
          /\ (auto_blocks /\ rnd.block /\ s7.running # NoPid) =>
               BlockedForIo(s8, s7.running) /\ s8.procs[s7.running].io_remaining \in RandLo..RandHi


\* C28: step 6 of a tick revives if and only if repeat_mode is on, ready is
\* empty, nothing is RUNNING and finished or zombies is non-empty; it leaves
\* finished and zombies empty and every revived process in ready, READY, with
\* remaining_time = burst_time, and step 7 of the same tick dispatches one of them.
CycleRevival ==
  \A auto_arrivals \in BOOLEAN : \A rnd \in Draws(Cur, auto_arrivals, FALSE, MaxProcs) :
    LET s5 == unblock_by_replies(tick_io(admit_all_new(tick_arrivals([Cur EXCEPT !.time = time + 1], auto_arrivals, rnd))))
        s6 == tick_before_dispatch(Cur, auto_arrivals, rnd)
        s7 == dispatch(s6)
        revived == s5.finished \o s5.zombies
    IN IF s5.repeat_mode /\ s5.ready = <<>> /\ s5.running = NoPid /\ revived # <<>>
       THEN /\ s6.finished = <<>> /\ s6.zombies = <<>> /\ s6.ready = revived
            /\ \A p \in Elems(revived) : s6.procs[p].state = "READY" /\ s6.procs[p].remaining_time = s6.procs[p].burst_time
            /\ \A p \in DOMAIN s5.procs \ Elems(revived) : s6.procs[p] = s5.procs[p]
            /\ s7.running \in Elems(revived)
       ELSE s6 = s5
\* repeat mode with nothing READY or RUNNING and with both a FINISHED and a
\* ZOMBIE process for the next tick to revive
CycleRevivalWitness ==
  /\ repeat_mode /\ ready = <<>> /\ running = NoPid /\ new = <<>> /\ blocked = <<>>
  /\ finished # <<>> /\ zombies # <<>> /\ Elems(finished) \cap Elems(zombies) = {}
  /\ tick_revive(Cur).ready = finished \o zombies


\* C29: no tick moves a PAUSED process out of blocked or changes its state, and
\* neither does any command other than unblock_pid or finalize_pid of that
\* process, or reset.
Paused(s, pid) == pid \in DOMAIN s.procs /\ pid \in Elems(s.blocked) /\ s.procs[pid].state = "PAUSED"
PausedKeptByTicks(pid) ==
  \A auto_arrivals, auto_blocks \in BOOLEAN : \A rnd \in Draws(Cur, auto_arrivals, auto_blocks, MaxProcs) : Paused(tick(Cur, auto_arrivals, auto_blocks, rnd), pid)
PausedKeptByCommands(pid) ==
  /\ \A burst \in BurstArgs : Paused(create_process(Cur, burst), pid)
  /\ \A q \in PidArgs, prio \in Priority : Paused(set_priority(Cur, q, prio), pid)
  /\ Paused(admit_all_new(Cur), pid) /\ Paused(dispatch(Cur), pid) /\ Paused(pause_running(Cur), pid) /\ Paused(reap_zombies(Cur), pid)
  /\ \A d \in IoDraws : Paused(block_running(Cur, "IO", d), pid)
  /\ \A q \in PidArgs \ {pid} : Paused(unblock_pid(Cur, q), pid) /\ Paused(finalize_pid(Cur, q), pid)
  /\ \A caller_pid, callee_pid \in PidArgs : Paused(depend_on(Cur, caller_pid, callee_pid), pid)
  /\ \A checked \in BOOLEAN : Paused(on_toggle_repeat(Cur, checked), pid) /\ Paused(on_toggle_zombie(Cur, checked), pid)
PausedSticky == \A pid \in Pids : Paused(Cur, pid) => (PausedKeptByTicks(pid) /\ PausedKeptByCommands(pid))


\* C30: step 5 of a tick moves a BLOCKED/DEPENDENCY process to ready exactly when
\* its own mailbox holds a message whose source is its waiting_for_pid, and then
\* consumes the oldest such message and no other; a process that is not released
\* keeps its mailbox, its fields and its places in ready and blocked.
ReplyRelease ==
  \A rnd \in Draws(Cur, FALSE, FALSE, MaxProcs) :
    LET s4 == tick_io(admit_all_new(tick_arrivals([Cur EXCEPT !.time = time + 1], FALSE, rnd)))
        s5 == unblock_by_replies(s4)
    IN \A pid \in DOMAIN s4.procs :
         LET inbox == mailbox_get(s4, pid)
             answers == {i \in 1..Len(inbox) : inbox[i].src = s4.procs[pid].waiting_for_pid}
         IN IF (\E b \in PidArgs : WaitsOn(s4, pid, b)) /\ answers # {}
            THEN /\ s5.procs[pid] = [s4.procs[pid] EXCEPT !.state = "READY", !.block_reason = NoReason, !.waiting_for_pid = NoPid]
                 /\ pid \in Elems(s5.ready) /\ pid \notin Elems(s5.blocked)
                 /\ \E i \in answers : (\A j \in answers : i <= j) /\ mailbox_get(s5, pid) = RemoveAt(inbox, i)
            ELSE /\ s5.procs[pid] = s4.procs[pid] /\ mailbox_get(s5, pid) = inbox
                 /\ Count(s5.ready, pid) = Count(s4.ready, pid) /\ Count(s5.blocked, pid) = Count(s4.blocked, pid)


\* C31: without repeat mode, arrivals, random blocks and commands, a population of
\* NEW, READY and RUNNING processes with positive bursts is run by repeated ticks
\* to a state with ready empty, nothing RUNNING and every process FINISHED or
\* ZOMBIE; every tick before that charges one process, so that the state is
\* reached after exactly sum-of-remaining_time ticks.
TerminatesExactly ==
  /\ [](/\ time = Len(h_run) /\ \A t \in 1..Len(h_run) : h_run[t] # NoPid
        /\ \A pid \in Pids : procs[pid].remaining_time >= 0
        /\ time + RemainingWork(Cur) = TotalBurst(Cur)
        /\ Complete(Cur) <=> time = TotalBurst(Cur)
        /\ Complete(Cur) => (new = <<>> /\ ready = <<>> /\ blocked = <<>> /\ running = NoPid))
  /\ <>(Complete(Cur) /\ ready = <<>> /\ running = NoPid /\ time = TotalBurst(Cur))
\* the end of a population of two processes of different classes, the second
\* one NEW at the start: both complete after burst 4 + burst 3 = 7 ticks
TerminatesWitness ==
  /\ Complete(Cur) /\ Len(procs) = 2 /\ time = 7 /\ ready = <<>> /\ running = NoPid
  /\ procs[1].burst_time = 4 /\ procs[2].burst_time = 3 /\ procs[1].priority = "LOW" /\ procs[2].priority = "HIGH"
  /\ h_run[1] = 1 /\ h_run[2] = 2

====
